---- MODULE Spec2Model ----
(***************************************************************************)
(* Model of the telegraf pipeline runtime slice:                           *)
(*   - models.RunningAggregator (Add / Push / UpdateWindow / EndPeriod),   *)
(*     src/unnamed/part_001 lines 736-940;                                 *)
(*   - the delivery tracking exercised by TestTracking,                    *)
(*     src/unnamed/part_001 lines 652-734.                                 *)
(* Times are integers counted from Go's zero time.Time.                    *)
(***************************************************************************)
EXTENDS Integers, Sequences, FiniteSets, TLC

(***************************************************************************)
(* Bounds of the model.                                                    *)
(***************************************************************************)
MaxAdds == 2          \* Add calls started in one behaviour
MaxPushes == 2        \* Push calls started in one behaviour
MaxSinks == 3         \* sinks one tracked point is forwarded to
MaxErrors == 2        \* protocol errors recorded in one behaviour
MaxAgentCalls == 1    \* direct EndPeriod/UpdateWindow calls of the agent
MaxNodes == 2         \* nodes that node discovery returns
MaxGathers == 2       \* Gather calls in one behaviour
MaxAddrs == 2         \* addresses in one node's status
MaxServers == 2       \* servers in one fetched server list
MaxTrackerCalls == 3  \* ack() and nack() calls in one behaviour

Periods == {3, 10}                       \* AggregatorConfig.Period
Graces == {1}                            \* AggregatorConfig.Grace
Delays == {2}                            \* AggregatorConfig.Delay
ClockValues == {3, 4, 95, 500}          \* readings of time.Now()
SmallClock == {3, 95}
PointTimes == {1, 2, 3}                  \* metric timestamps
TicksPerSecond == 5                      \* time.Second, in clock ticks

Producers == {"p1", "p2"}
Pusher == "push"
Agent == "agent"
Procs == Producers \cup {Pusher, Agent}
NoHolder == "none"
NoMetric == [none |-> TRUE]

\* A metric handed to Add: timestamp, the outcome Filter.Select has on it,
\* its fields (name -> value) and whether it is a tracking metric.
FieldSets == {{"a", "b"}, {"b"}}
Metrics == [time : PointTimes, sel : {"ok", "no", "err"}, fields : FieldSets,
            tracked : {TRUE}]
\* the value of field "a" of a metric (5 or 7)
Value(m) == IF m.time = 1 THEN 5 ELSE 7
\* the points used when two producers run concurrently
\* one metric for each way an Add call can end while the window is [0, 0]
OutcomeMetrics ==
  {m \in Metrics : \/ m.sel = "no" /\ m.time = 1 /\ m.fields = {"a", "b"}
                   \/ m.sel = "ok" /\ m.time = 1 /\ m.fields = {"b"}
                   \/ m.sel = "ok" /\ m.time \in {1, 3}
                        /\ m.fields = {"a", "b"}}

SmallMetrics == {m \in Metrics : m.sel = "ok" /\ m.time \in {1, 2}
                                 /\ m.fields = {"a", "b"}}

VARIABLES
  cfg,              \* AggregatorConfig: Period, Grace, Delay, DropOriginal
  periodStart,      \* RunningAggregator.periodStart
  periodEnd,        \* RunningAggregator.periodEnd
  mu,               \* holder of the embedded sync.Mutex
  pc,               \* position of every goroutine
  origM,            \* the metric the producer passed to Add
  copyM,            \* Add's local m after metric.FromMetric / Filter.Modify
  ret,              \* value returned by the last Add of the producer
  outcome,          \* what the last Add of the producer did
  pending,          \* outstanding delivery obligations of the producer's metric
  MetricsFiltered,  \* selfstat counter
  MetricsDropped,   \* selfstat counter
  errLog,           \* number of r.log.Errorf calls
  aggState,         \* state of the wrapped telegraf.Aggregator (a sum)
  acc,              \* what the last Aggregator.Push wrote to the accumulator
  since, until,     \* arguments of the running UpdateWindow call
  nowWall,          \* wall clock sampled by the running Push
  oldEnd,           \* periodEnd read by the running Push
  pushTrace,        \* calls made so far by the running Push, in order
  nAdds, nPushes, nAgent,
  lastLate,         \* history: the last point Add rejected as too late, and
                    \* the periodEnd it was compared with
  sincePush,        \* history: the points Aggregator.Add received since the
                    \* last Aggregator.Push
  nNotSelected,     \* history: Add calls that returned at the Select test
  nAggAdd,          \* history: calls of Aggregator.Add
  trk,              \* tracking registry: one record per TrackingID
  errChan,          \* protocol errors reported to the error channel
  kURL,             \* Kubernetes.URL is set
  respTimeout,      \* Kubernetes.ResponseTimeout, in seconds
  httpClient,       \* Kubernetes.httpClient: 0 is nil, else the client's number
  nClients,         \* http.Client values created so far
  gpc,              \* position of the goroutine running Gather
  gatherRet,        \* what the last Gather returned
  nodeURLs,         \* nodeBaseURLs of the running Gather
  spawned,          \* iterations of Gather's loop done so far
  wg,               \* counter of Gather's sync.WaitGroup
  tpc,              \* position of the gatherSummary call of every target
  phase,            \* which of its two requests the target's call is at
  tErr,             \* what the target's gatherSummary returned
  built,            \* the target's metrics were added to the accumulator
  addErrors,        \* arguments of acc.AddError, per target, in order
  started,          \* gatherSummary calls started per target in this Gather
  cancelled,        \* the running collection cycle was cancelled
  nGather,
  gnuState,         \* position of the running getNodeURLs call
  gnuUrls,          \* nodeUrls built so far by getNodeURLs
  gnuWarn,          \* log.Warnf calls of getNodeURLs
  gnuLast,          \* the node getNodeURLs handled last: its addresses, what
                    \* getNodeAddress returned, whether a URL was appended
  isState,          \* InternetSpeed: "new" before Init, "ready" after
  isFilter,         \* the server IDs is.serverFilter matches
  isServers,        \* is.servers
  isServer,         \* is.server
  fcsRet,           \* what the last findClosestServer call returned
  tMutex,           \* testTracker: holder of the embedded Mutex, or "free"
  tCond,            \* testTracker: the embedded *sync.Cond is set
  numAcks,
  numNacks,
  wpc,              \* position of the goroutine calling waitForAck
  wNum,             \* the num of its waitForAck call
  cpc,              \* per caller: the ack() or nack() call it is in
  ackCalls,         \* ack() calls that returned
  nackCalls         \* nack() calls that returned

aggVars == <<cfg, periodStart, periodEnd, mu, pc, origM, copyM, ret, outcome,
             pending, MetricsFiltered, MetricsDropped, errLog, aggState, acc,
             since, until, nowWall, oldEnd, pushTrace, nAdds, nPushes, nAgent>>

histVars == <<lastLate, sincePush, nNotSelected, nAggAdd>>

notAggVars == <<trk, errChan>>

k8sVars == <<kURL, respTimeout, httpClient, nClients, gpc, gatherRet, nodeURLs,
             spawned, wg, tpc, phase, tErr, built, addErrors, started,
             cancelled, nGather>>

nodeVars == <<gnuState, gnuUrls, gnuWarn, gnuLast>>

speedVars == <<isState, isFilter, isServers, isServer, fcsRet>>

trackerVars ==
  <<tMutex, tCond, numAcks, numNacks, wpc, wNum, cpc, ackCalls, nackCalls>>

miscVars == <<nodeVars, speedVars, trackerVars>>

vars == <<aggVars, histVars, notAggVars, k8sVars, miscVars>>

(***************************************************************************)
(* Pure helpers.                                                           *)
(***************************************************************************)
\* time.Time.Truncate(d): round down to a multiple of d since the zero time;
\* for d <= 0 the time is returned unchanged (only the monotonic reading is
\* stripped).
Truncate(t, d) == IF d <= 0 THEN t ELSE t - (t % d)

\* metric.FromMetric: a copy of the metric that does not retain tracking.
FromMetric(m) == [m EXCEPT !.tracked = FALSE]

\* Filter.Modify: prunes the fields the filter excludes (field "b").
Modify(m) == [m EXCEPT !.fields = m.fields \ {"b"}]

\* variant: both boundaries exclusive
OutsideWindowExclusive(t, ps, pe, c) == t <= ps - c.Grace \/ t >= pe + c.Delay

\* variant: the upper bound is measured from the start of the window
OutsideWindowFromStart(t, ps, pe, c) == t < ps - c.Grace \/ t > ps + c.Delay

\* The window test of Add: m.Time().Before(periodStart - Grace) or
\* m.Time().After(periodEnd + Delay).
OutsideWindow(t, ps, pe, c) == t < ps - c.Grace \/ t > pe + c.Delay

\* variant: only a clock before the next window re-anchors
PushWindowBackwardOnly(pe, now, c) ==
  LET nw == Truncate(now, -1)
  IN IF nw < Truncate(pe, -1)
       THEN [since |-> Truncate(nw, c.Period),
             until |-> Truncate(nw, c.Period) + c.Period]
       ELSE [since |-> pe, until |-> pe + c.Period]

\* variant: the re-anchored window has no length (until = since)
PushWindowNoPeriod(pe, now, c) ==
  LET nw == Truncate(now, -1)
  IN IF nw < Truncate(pe, -1) \/ nw > Truncate(pe + c.Period, -1)
       THEN [since |-> Truncate(nw, c.Period),
             until |-> Truncate(nw, c.Period)]
       ELSE [since |-> pe, until |-> pe + c.Period]

\* variant: the clock test excludes both ends of the next window
PushWindowExclusive(pe, now, c) ==
  LET nw == Truncate(now, -1)
  IN IF nw <= Truncate(pe, -1) \/ nw >= Truncate(pe + c.Period, -1)
       THEN [since |-> Truncate(nw, c.Period),
             until |-> Truncate(nw, c.Period) + c.Period]
       ELSE [since |-> pe, until |-> pe + c.Period]

\* variant: re-anchors at the clock reading itself, not at a period multiple
PushWindowNoTruncate(pe, now, c) ==
  LET nw == Truncate(now, -1)
  IN IF nw < Truncate(pe, -1) \/ nw > Truncate(pe + c.Period, -1)
       THEN [since |-> nw, until |-> nw + c.Period]
       ELSE [since |-> pe, until |-> pe + c.Period]

\* variant: the clock test compares whole seconds
PushWindowWholeSeconds(pe, now, c) ==
  LET nw == Truncate(now, TicksPerSecond)
  IN IF nw < Truncate(pe, TicksPerSecond)
          \/ nw > Truncate(pe + c.Period, TicksPerSecond)
       THEN [since |-> Truncate(now, c.Period),
             until |-> Truncate(now, c.Period) + c.Period]
       ELSE [since |-> pe, until |-> pe + c.Period]

\* since / until computed by Push from periodEnd and the sampled clock.
PushWindow(pe, now, c) ==
  LET s0 == pe
      u0 == pe + c.Period
      nw == Truncate(now, -1)
  IN IF nw < Truncate(s0, -1) \/ nw > Truncate(u0, -1)
       THEN [since |-> Truncate(nw, c.Period),
             until |-> Truncate(nw, c.Period) + c.Period]
       ELSE [since |-> s0, until |-> u0]

\* variant: Lock never waits
CanLockAlways(p) == TRUE

\* sync.Mutex.Lock can proceed
CanLock(p) == mu = NoHolder

EmptyAgg == [sum |-> 0, count |-> 0]

\* the accumulator before the first Push wrote to it
NoOutput == [sum |-> 0, count |-> 0, failed |-> FALSE]

\* telegraf.Aggregator.Add of the wrapped algorithm (a sum aggregator).
AggAdd(s, m) == [sum |-> s.sum + Value(m), count |-> s.count + 1]

\* variant: Filter.Modify is applied to the caller's metric, no copy is made
AddCopyInPlace(m) ==
  [orig |-> Modify(m), copy |-> Modify(m), obligations |-> 0]

\* The copy Add works on: FromMetric, then Filter.Modify on the copy.
\* A copy that kept tracking would add one delivery obligation.
AddCopy(m) ==
  LET c == Modify(FromMetric(m))
  IN [orig |-> m, copy |-> c, obligations |-> IF c.tracked THEN 1 ELSE 0]

\* variant: a metric rejected by the window is never dropped downstream
AddReturnKeepOnDrop(c, oc) == IF oc = "dropped" THEN FALSE ELSE c.DropOriginal

\* Lines 895, 905, 909: the value Add returns once the metric was selected.
AddReturn(c, oc) == c.DropOriginal

\* variant: a not selected metric gets the configured answer
NotSelectedReturnDropOriginal(c) == c.DropOriginal

\* Lines 882-884: what Add returns when Select says the metric is not selected.
NotSelectedReturn(c) == FALSE

\* variant: Add stretches the window to take in a later point
AddPeriodEndExtended(pe, t) == IF t > pe THEN t ELSE pe

\* Lines 898-909: r.periodEnd after Add's window test; Add assigns nothing.
AddPeriodEnd(pe, t) == pe

\* variant: the counter is stored, not added to
IncrStore(v, n) == n

\* Lines 894 and 904: selfstat.Stat.Incr(n), one atomic addition.
Incr(v, n) == v + n

NoLate == [time |-> -1, periodEnd |-> -1]

NoRet == "noret"
Labels == {"idle", "select", "lock", "window", "unlock", "done", "compute",
           "uw_start", "uw_end", "agg_push", "agg_reset", "end_period"}

(***************************************************************************)
(* Initial state: NewRunningAggregator leaves periodStart and periodEnd    *)
(* at the zero time and the counters at zero.                              *)
(***************************************************************************)
InitAgg ==
  /\ cfg \in [Period : Periods, Grace : Graces, Delay : Delays,
              DropOriginal : BOOLEAN]
  /\ periodStart = 0
  /\ periodEnd = 0
  /\ mu = NoHolder
  /\ pc = [q \in Procs |-> "idle"]
  /\ origM = [p \in Producers |-> NoMetric]
  /\ copyM = [p \in Producers |-> NoMetric]
  /\ ret = [p \in Producers |-> NoRet]
  /\ outcome = [p \in Producers |-> "none"]
  /\ pending = [p \in Producers |-> 0]
  /\ MetricsFiltered = 0
  /\ MetricsDropped = 0
  /\ errLog = 0
  /\ aggState = EmptyAgg
  /\ acc = NoOutput
  /\ since = [q \in {Pusher, Agent} |-> 0]
  /\ until = [q \in {Pusher, Agent} |-> 0]
  /\ nowWall = 0
  /\ oldEnd = 0
  /\ pushTrace = <<>>
  /\ nAdds = 0
  /\ nPushes = 0
  /\ nAgent = 0
  /\ lastLate = NoLate
  /\ sincePush = EmptyAgg
  /\ nNotSelected = 0
  /\ nAggAdd = 0

(***************************************************************************)
(* RunningAggregator.Add, one action per step of the goroutine.            *)
(***************************************************************************)
\* A producer calls Add(m) with a tracking metric (one obligation pending).
AddStart(p, m) ==
  /\ pc[p] \in {"idle", "done"}
  /\ nAdds < MaxAdds
  /\ nAdds' = nAdds + 1
  /\ origM' = [origM EXCEPT ![p] = m]
  /\ copyM' = [copyM EXCEPT ![p] = NoMetric]
  /\ pending' = [pending EXCEPT ![p] = 1]
  /\ ret' = [ret EXCEPT ![p] = NoRet]
  /\ outcome' = [outcome EXCEPT ![p] = "none"]
  /\ pc' = [pc EXCEPT ![p] = "select"]
  /\ UNCHANGED <<histVars, notAggVars, k8sVars, miscVars>>
  /\ UNCHANGED <<cfg, periodStart, periodEnd, mu, MetricsFiltered,
                 MetricsDropped, errLog, aggState, acc, since, until, nowWall,
                 oldEnd, pushTrace, nPushes, nAgent>>

\* Lines 879-896: Filter.Select, the copy, Filter.Modify, the empty check.
AddFilter(p) ==
  /\ pc[p] = "select"
  /\ LET m == origM[p]
         r == AddCopy(m)
     IN /\ errLog' = IF m.sel = "err" THEN errLog + 1 ELSE errLog
        /\ IF m.sel = "no"
             THEN /\ ret' = [ret EXCEPT ![p] = NotSelectedReturn(cfg)]
                  /\ outcome' = [outcome EXCEPT ![p] = "notselected"]
                  /\ pc' = [pc EXCEPT ![p] = "done"]
                  /\ nNotSelected' = nNotSelected + 1
                  /\ UNCHANGED <<origM, copyM, pending, MetricsFiltered>>
             ELSE /\ UNCHANGED nNotSelected
                  /\ origM' = [origM EXCEPT ![p] = r.orig]
                  /\ copyM' = [copyM EXCEPT ![p] = r.copy]
                  /\ pending' = [pending EXCEPT ![p] = @ + r.obligations]
                  /\ IF r.copy.fields = {}
                       THEN /\ MetricsFiltered' = Incr(MetricsFiltered, 1)
                            /\ ret' = [ret EXCEPT ![p] =
                                                  AddReturn(cfg, "filtered")]
                            /\ outcome' = [outcome EXCEPT ![p] = "filtered"]
                            /\ pc' = [pc EXCEPT ![p] = "done"]
                       ELSE /\ pc' = [pc EXCEPT ![p] = "lock"]
                            /\ UNCHANGED <<MetricsFiltered, ret, outcome>>
  /\ UNCHANGED <<lastLate, sincePush, nAggAdd, notAggVars, k8sVars, miscVars>>
  /\ UNCHANGED <<cfg, periodStart, periodEnd, mu, MetricsDropped, aggState,
                 acc, since, until, nowWall, oldEnd, pushTrace, nAdds, nPushes,
                 nAgent>>

\* Line 898: r.Lock()
AddLock(p) ==
  /\ pc[p] = "lock"
  /\ CanLock(p)
  /\ mu' = p
  /\ pc' = [pc EXCEPT ![p] = "window"]
  /\ UNCHANGED <<histVars, notAggVars, k8sVars, miscVars>>
  /\ UNCHANGED <<cfg, periodStart, periodEnd, origM, copyM, ret, outcome,
                 pending, MetricsFiltered, MetricsDropped, errLog, aggState,
                 acc, since, until, nowWall, oldEnd, pushTrace, nAdds, nPushes,
                 nAgent>>

\* Lines 901-909: the window test, then MetricsDropped or Aggregator.Add.
AddWindow(p) ==
  /\ pc[p] = "window"
  /\ IF OutsideWindow(copyM[p].time, periodStart, periodEnd, cfg)
       THEN /\ MetricsDropped' = Incr(MetricsDropped, 1)
            /\ outcome' = [outcome EXCEPT ![p] = "dropped"]
            /\ ret' = [ret EXCEPT ![p] = AddReturn(cfg, "dropped")]
            /\ lastLate' = IF copyM[p].time > periodEnd + cfg.Delay
                              THEN [time |-> copyM[p].time,
                                    periodEnd |-> periodEnd]
                              ELSE lastLate
            /\ UNCHANGED <<aggState, sincePush, nAggAdd>>
       ELSE /\ aggState' = AggAdd(aggState, copyM[p])
            /\ outcome' = [outcome EXCEPT ![p] = "added"]
            /\ ret' = [ret EXCEPT ![p] = AddReturn(cfg, "added")]
            /\ sincePush' = [sum |-> sincePush.sum + Value(copyM[p]),
                             count |-> sincePush.count + 1]
            /\ nAggAdd' = nAggAdd + 1
            /\ UNCHANGED <<MetricsDropped, lastLate>>
  /\ periodEnd' = AddPeriodEnd(periodEnd, copyM[p].time)
  /\ pc' = [pc EXCEPT ![p] = "unlock"]
  /\ UNCHANGED <<nNotSelected, notAggVars, k8sVars, miscVars>>
  /\ UNCHANGED <<cfg, periodStart, mu, origM, copyM, pending,
                 MetricsFiltered, errLog, acc, since, until, nowWall, oldEnd,
                 pushTrace, nAdds, nPushes, nAgent>>

\* Line 899: the deferred r.Unlock()
AddUnlock(p) ==
  /\ pc[p] = "unlock"
  /\ mu' = NoHolder
  /\ pc' = [pc EXCEPT ![p] = "done"]
  /\ UNCHANGED <<histVars, notAggVars, k8sVars, miscVars>>
  /\ UNCHANGED <<cfg, periodStart, periodEnd, origM, copyM, ret, outcome,
                 pending, MetricsFiltered, MetricsDropped, errLog, aggState,
                 acc, since, until, nowWall, oldEnd, pushTrace, nAdds, nPushes,
                 nAgent>>

(***************************************************************************)
(* RunningAggregator.UpdateWindow: two assignments, made by whichever      *)
(* goroutine runs it (Push under the lock, or a direct caller).            *)
(***************************************************************************)
\* Line 857: r.periodStart = start
UWSetStart(q) ==
  /\ pc[q] = "uw_start"
  /\ periodStart' = since[q]
  /\ pc' = [pc EXCEPT ![q] = "uw_end"]
  /\ UNCHANGED <<histVars, notAggVars, k8sVars, miscVars>>
  /\ UNCHANGED <<cfg, periodEnd, mu, origM, copyM, ret, outcome, pending,
                 MetricsFiltered, MetricsDropped, errLog, aggState, acc, since,
                 until, nowWall, oldEnd, pushTrace, nAdds, nPushes, nAgent>>

\* Line 858: r.periodEnd = until; then back to the caller.
UWSetEnd(q) ==
  /\ pc[q] = "uw_end"
  /\ periodEnd' = until[q]
  /\ pc' = [pc EXCEPT ![q] = IF q = Pusher THEN "agg_push" ELSE "idle"]
  /\ pushTrace' = IF q = Pusher THEN Append(pushTrace, "UpdateWindow")
                                ELSE pushTrace
  /\ UNCHANGED <<histVars, notAggVars, k8sVars, miscVars>>
  /\ UNCHANGED <<cfg, periodStart, mu, origM, copyM, ret, outcome, pending,
                 MetricsFiltered, MetricsDropped, errLog, aggState, acc, since,
                 until, nowWall, oldEnd, nAdds, nPushes, nAgent>>

(***************************************************************************)
(* RunningAggregator.Push, one action per step.                            *)
(***************************************************************************)
\* Line 913: r.Lock()
PushLock ==
  /\ pc[Pusher] = "idle"
  /\ nPushes < MaxPushes
  /\ CanLock(Pusher)
  /\ mu' = Pusher
  /\ nPushes' = nPushes + 1
  /\ pc' = [pc EXCEPT ![Pusher] = "compute"]
  /\ UNCHANGED <<histVars, notAggVars, k8sVars, miscVars>>
  /\ UNCHANGED <<cfg, periodStart, periodEnd, origM, copyM, ret, outcome,
                 pending, MetricsFiltered, MetricsDropped, errLog, aggState,
                 acc, since, until, nowWall, oldEnd, pushTrace, nAdds, nAgent>>

\* Lines 916-929: since/until from periodEnd and time.Now(), then the call
\* of UpdateWindow(since, until).
PushCompute(now) ==
  /\ pc[Pusher] = "compute"
  /\ LET w == PushWindow(periodEnd, now, cfg)
     IN /\ since' = [since EXCEPT ![Pusher] = w.since]
        /\ until' = [until EXCEPT ![Pusher] = w.until]
        /\ nowWall' = now
        /\ oldEnd' = periodEnd
  /\ pc' = [pc EXCEPT ![Pusher] = "uw_start"]
  /\ UNCHANGED <<histVars, notAggVars, k8sVars, miscVars>>
  /\ UNCHANGED <<cfg, periodStart, periodEnd, mu, origM, copyM, ret, outcome,
                 pending, MetricsFiltered, MetricsDropped, errLog, aggState,
                 acc, pushTrace, nAdds, nPushes, nAgent>>

\* variant: a failed Push returns without Reset
AfterAggPushSkipReset(failed) == IF failed THEN "unlock" ELSE "agg_reset"

\* Where Push goes after the algorithm's Push returned (failed or not).
AfterAggPush(failed) == "agg_reset"

\* Lines 931-934: r.Aggregator.Push(acc); a failing Push reports an error to
\* the accumulator instead of the aggregate.
PushAgg ==
  /\ pc[Pusher] = "agg_push"
  /\ \E failed \in BOOLEAN :
       /\ acc' = [sum |-> aggState.sum, count |-> aggState.count,
                  failed |-> failed]
       /\ pc' = [pc EXCEPT ![Pusher] = AfterAggPush(failed)]
  /\ pushTrace' = Append(pushTrace, "Push")
  /\ sincePush' = EmptyAgg
  /\ UNCHANGED <<lastLate, nNotSelected, nAggAdd, notAggVars, k8sVars, miscVars>>
  /\ UNCHANGED <<cfg, periodStart, periodEnd, mu, origM, copyM, ret, outcome,
                 pending, MetricsFiltered, MetricsDropped, errLog, aggState,
                 since, until, nowWall, oldEnd, nAdds, nPushes, nAgent>>

\* Line 935: r.Aggregator.Reset()
PushReset ==
  /\ pc[Pusher] = "agg_reset"
  /\ aggState' = EmptyAgg
  /\ pushTrace' = Append(pushTrace, "Reset")
  /\ pc' = [pc EXCEPT ![Pusher] = "unlock"]
  /\ UNCHANGED <<histVars, notAggVars, k8sVars, miscVars>>
  /\ UNCHANGED <<cfg, periodStart, periodEnd, mu, origM, copyM, ret, outcome,
                 pending, MetricsFiltered, MetricsDropped, errLog, acc, since,
                 until, nowWall, oldEnd, nAdds, nPushes, nAgent>>

\* Line 914: the deferred r.Unlock()
PushUnlock ==
  /\ pc[Pusher] = "unlock"
  /\ mu' = NoHolder
  /\ pc' = [pc EXCEPT ![Pusher] = "idle"]
  /\ since' = [since EXCEPT ![Pusher] = 0]
  /\ until' = [until EXCEPT ![Pusher] = 0]
  /\ nowWall' = 0
  /\ oldEnd' = 0
  /\ pushTrace' = <<>>
  /\ UNCHANGED <<histVars, notAggVars, k8sVars, miscVars>>
  /\ UNCHANGED <<cfg, periodStart, periodEnd, origM, copyM, ret, outcome,
                 pending, MetricsFiltered, MetricsDropped, errLog, aggState,
                 acc, nAdds, nPushes, nAgent>>

(***************************************************************************)
(* Direct calls of the exported EndPeriod / UpdateWindow (the agent's      *)
(* scheduling loop); neither method takes the lock.                        *)
(***************************************************************************)
\* The agent calls r.EndPeriod()
AgentCallEndPeriod ==
  /\ pc[Agent] = "idle"
  /\ nAgent < MaxAgentCalls
  /\ nAgent' = nAgent + 1
  /\ pc' = [pc EXCEPT ![Agent] = "end_period"]
  /\ UNCHANGED <<histVars, notAggVars, k8sVars, miscVars>>
  /\ UNCHANGED <<cfg, periodStart, periodEnd, mu, origM, copyM, ret, outcome,
                 pending, MetricsFiltered, MetricsDropped, errLog, aggState,
                 acc, since, until, nowWall, oldEnd, pushTrace, nAdds, nPushes>>

\* Line 853: return r.periodEnd
AgentEndPeriod ==
  /\ pc[Agent] = "end_period"
  /\ until' = [until EXCEPT ![Agent] = periodEnd]
  /\ pc' = [pc EXCEPT ![Agent] = "idle"]
  /\ UNCHANGED <<histVars, notAggVars, k8sVars, miscVars>>
  /\ UNCHANGED <<cfg, periodStart, periodEnd, mu, origM, copyM, ret, outcome,
                 pending, MetricsFiltered, MetricsDropped, errLog, aggState,
                 acc, since, nowWall, oldEnd, pushTrace, nAdds, nPushes,
                 nAgent>>

\* The agent calls r.UpdateWindow(start, start + Period)
AgentCallUpdateWindow ==
  /\ pc[Agent] = "idle"
  /\ nAgent < MaxAgentCalls
  /\ nAgent' = nAgent + 1
  /\ \E start \in {4} :
       /\ since' = [since EXCEPT ![Agent] = start]
       /\ until' = [until EXCEPT ![Agent] = start + cfg.Period]
  /\ pc' = [pc EXCEPT ![Agent] = "uw_start"]
  /\ UNCHANGED <<histVars, notAggVars, k8sVars, miscVars>>
  /\ UNCHANGED <<cfg, periodStart, periodEnd, mu, origM, copyM, ret, outcome,
                 pending, MetricsFiltered, MetricsDropped, errLog, aggState,
                 acc, nowWall, oldEnd, pushTrace, nAdds, nPushes>>

(***************************************************************************)
(* Delivery tracking (TrackingRegistry).                                   *)
(***************************************************************************)
TIDs == {1, 2}
Untracked == [state |-> "unknown", n |-> 0, remaining |-> 0,
              failed |-> FALSE, notified |-> 0, status |-> "none",
              history |-> <<>>]

\* variant: the last reported outcome decides the status
AggregateFailedLast(failed, ok) == ~ok

\* Aggregate status after one more outcome: failure once any sink failed.
AggregateFailed(failed, ok) == failed \/ ~ok

\* The completion callback is due when the last obligation is accounted for.
NotifyDue(remaining) == remaining = 0

\* variant: a point forwarded nowhere waits for an outcome that never comes
ResolvesAtRegistrationNever(n) == FALSE

\* A point forwarded to no sink resolves when its obligations are registered.
ResolvesAtRegistration(n) == NotifyDue(n)

\* variant: only reports for unregistered ids are rejected
ProtocolErrorUnknownOnly(r) == r.state # "registered"

\* A report is a programming error when the id has no registered obligations
\* or all of them are already accounted for.
ProtocolError(r) == r.state # "registered" \/ r.remaining = 0

\* what the error channel receives for a rejected report
ErrorFor(id, r) ==
  [id |-> id,
   cause |-> IF r.state # "registered" THEN "unknown id"
                                        ELSE "too many outcomes"]

\* Track(point): wraps the point with an obligation counter.
Track(id) ==
  /\ trk[id].state = "unknown"
  /\ trk' = [trk EXCEPT ![id].state = "tracked"]
  /\ UNCHANGED <<errChan, aggVars, histVars, k8sVars, miscVars>>

\* RegisterObligations(id, n); with n = 0 the point resolves at once.
RegisterObligations(id, n) ==
  /\ trk[id].state = "tracked"
  /\ trk' = [trk EXCEPT ![id] =
              [state |-> "registered", n |-> n, remaining |-> n,
               failed |-> FALSE,
               notified |-> IF ResolvesAtRegistration(n) THEN 1 ELSE 0,
               status |-> IF ResolvesAtRegistration(n) THEN "success"
                                                       ELSE "none",
               history |-> <<>>]]
  /\ UNCHANGED <<errChan, aggVars, histVars, k8sVars, miscVars>>

\* ReportOutcome(id, success)
ReportOutcome(id, ok) ==
  IF ProtocolError(trk[id])
    THEN /\ Len(errChan) < MaxErrors
         /\ errChan' = Append(errChan, ErrorFor(id, trk[id]))
         /\ UNCHANGED <<trk, aggVars, histVars, k8sVars, miscVars>>
    ELSE LET r == trk[id]
             left == r.remaining - 1
             f == AggregateFailed(r.failed, ok)
         IN /\ trk' = [trk EXCEPT ![id] =
                        [r EXCEPT !.remaining = left,
                                  !.failed = f,
                                  !.history = Append(r.history, ok),
                                  !.notified = IF NotifyDue(left) THEN @ + 1
                                                                  ELSE @,
                                  !.status = IF NotifyDue(left)
                                               THEN IF f THEN "failure"
                                                         ELSE "success"
                                               ELSE @]]
            /\ UNCHANGED <<errChan, aggVars, histVars, k8sVars, miscVars>>

\* TestTracking, lines 705-710: metric.WithTracking(m, notify) - the point
\* is tracked with one outstanding obligation (the metric itself).
WithTracking(id) ==
  /\ trk[id].state = "unknown"
  /\ trk' = [trk EXCEPT ![id] =
              [Untracked EXCEPT !.state = "registered", !.n = 1,
                                !.remaining = 1]]
  /\ UNCHANGED <<errChan, aggVars, histVars, k8sVars, miscVars>>

\* TestTracking, lines 723-726: m.Accept() on a metric returned by Apply.
Accept(id) ==
  /\ trk[id].state = "registered"
  /\ trk[id].n = 1
  /\ trk[id].remaining = 1
  /\ ReportOutcome(id, TRUE)

InitTracking ==
  /\ trk = [id \in TIDs |-> Untracked]
  /\ errChan = <<>>

(***************************************************************************)
(* The Kubernetes input: Gather, getNodeURLs, gatherSummary, loadJSON.     *)
(***************************************************************************)
\* Target 0 is the configured URL, target i >= 1 the i-th discovered node.
Targets == 0..MaxNodes
ResponseTimeouts == {0, 10}
NodeLists == {[i \in 1..k |-> i] : k \in 0..MaxNodes}

K8sConstructed ==
  /\ httpClient = 0
  /\ nClients = 0
  /\ gpc = "idle"
  /\ gatherRet = "none"
  /\ nodeURLs = <<>>
  /\ spawned = 0
  /\ wg = 0
  /\ tpc = [t \in Targets |-> "none"]
  /\ phase = [t \in Targets |-> "summary"]
  /\ tErr = [t \in Targets |-> "none"]
  /\ built = [t \in Targets |-> FALSE]
  /\ addErrors = [t \in Targets |-> <<>>]
  /\ started = [t \in Targets |-> 0]
  /\ cancelled = FALSE
  /\ nGather = 0

\* The plugin with any configuration.
InitK8s ==
  /\ kURL \in BOOLEAN
  /\ respTimeout \in ResponseTimeouts
  /\ K8sConstructed

\* The plugin with the default configuration: no url, no response_timeout.
DefaultK8s ==
  /\ kURL = FALSE
  /\ respTimeout = 0
  /\ K8sConstructed

\* variant: in single-URL mode Gather returns what gatherSummary returned
GatherResultPropagate(e) == e

\* Lines 78-81 and 98: what Gather returns once the targets were collected.
GatherResult(e) == "nil"

\* variant: Wait returns while one task is still running
WgWaitReturnsEarly(w) == w <= 1

\* Line 96: wg.Wait() returns when the counter is zero.
WgWaitReturns(w) == w = 0

\* Line 77: Gather is called; with a URL it calls gatherSummary itself.
GatherCall ==
  /\ gpc \in {"idle", "returned"}
  /\ nGather < MaxGathers
  /\ nGather' = nGather + 1
  /\ gatherRet' = "none"
  /\ nodeURLs' = <<>>
  /\ spawned' = 0
  /\ phase' = [t \in Targets |-> "summary"]
  /\ tErr' = [t \in Targets |-> "none"]
  /\ built' = [t \in Targets |-> FALSE]
  /\ addErrors' = [t \in Targets |-> <<>>]
  /\ cancelled' = FALSE
  /\ IF kURL
       THEN /\ gpc' = "single"
            /\ tpc' = [t \in Targets |-> IF t = 0 THEN "lj_begin" ELSE "none"]
            /\ started' = [t \in Targets |-> IF t = 0 THEN 1 ELSE 0]
       ELSE /\ gpc' = "discover"
            /\ tpc' = [t \in Targets |-> "none"]
            /\ started' = [t \in Targets |-> 0]
  /\ UNCHANGED <<kURL, respTimeout, httpClient, nClients, wg>>
  /\ UNCHANGED <<aggVars, histVars, notAggVars, miscVars>>

\* Lines 84-87: getNodeURLs; its error is returned from Gather.
GetNodeURLs ==
  /\ gpc = "discover"
  /\ \/ /\ gatherRet' = "err"
        /\ gpc' = "returned"
        /\ UNCHANGED nodeURLs
     \/ \E l \in NodeLists :
          /\ nodeURLs' = l
          /\ gpc' = IF Len(l) = 0 THEN "wait" ELSE "spawn"
          /\ UNCHANGED gatherRet
  /\ UNCHANGED <<kURL, respTimeout, httpClient, nClients, spawned, wg, tpc,
                 phase, tErr, built, addErrors, started, cancelled, nGather>>
  /\ UNCHANGED <<aggVars, histVars, notAggVars, miscVars>>

\* Lines 89-95: one iteration of the loop: wg.Add(1) and the go statement.
GatherSpawn ==
  /\ gpc = "spawn"
  /\ spawned < Len(nodeURLs)
  /\ LET t == nodeURLs[spawned + 1]
     IN /\ wg' = wg + 1
        /\ tpc' = [tpc EXCEPT ![t] = "lj_begin"]
        /\ started' = [started EXCEPT ![t] = @ + 1]
  /\ spawned' = spawned + 1
  /\ gpc' = IF spawned + 1 = Len(nodeURLs) THEN "wait" ELSE "spawn"
  /\ UNCHANGED <<kURL, respTimeout, httpClient, nClients, gatherRet, nodeURLs,
                 phase, tErr, built, addErrors, cancelled, nGather>>
  /\ UNCHANGED <<aggVars, histVars, notAggVars, miscVars>>

\* Lines 96-98: wg.Wait(); return nil
GatherWait ==
  /\ gpc = "wait"
  /\ WgWaitReturns(wg)
  /\ gatherRet' = "nil"
  /\ gpc' = "returned"
  /\ UNCHANGED <<kURL, respTimeout, httpClient, nClients, nodeURLs, spawned,
                 wg, tpc, phase, tErr, built, addErrors, started, cancelled,
                 nGather>>
  /\ UNCHANGED <<aggVars, histVars, notAggVars, miscVars>>

\* Lines 79-80: single-URL mode, after acc.AddError(...): return nil
GatherSingleReturn ==
  /\ gpc = "single"
  /\ tpc[0] = "done"
  /\ gatherRet' = GatherResult(tErr[0])
  /\ gpc' = "returned"
  /\ UNCHANGED <<kURL, respTimeout, httpClient, nClients, nodeURLs, spawned,
                 wg, tpc, phase, tErr, built, addErrors, started, cancelled,
                 nGather>>
  /\ UNCHANGED <<aggVars, histVars, notAggVars, miscVars>>

\* Lines 224-232: http.NewRequest and TLSConfig; either may fail.
LoadJSONBegin(t) ==
  /\ tpc[t] = "lj_begin"
  /\ \E fail \in BOOLEAN :
       IF fail THEN /\ tErr' = [tErr EXCEPT ![t] = "err"]
                    /\ tpc' = [tpc EXCEPT ![t] = "add_error"]
               ELSE /\ tpc' = [tpc EXCEPT ![t] = "lj_check"]
                    /\ UNCHANGED tErr
  /\ UNCHANGED <<kURL, respTimeout, httpClient, nClients, gpc, gatherRet,
                 nodeURLs, spawned, wg, phase, built, addErrors, started,
                 cancelled, nGather>>
  /\ UNCHANGED <<aggVars, histVars, notAggVars, miscVars>>

\* Line 234: if k.httpClient == nil (read without synchronisation)
LoadJSONCheck(t) ==
  /\ tpc[t] = "lj_check"
  /\ tpc' = [tpc EXCEPT ![t] = IF httpClient = 0 THEN "lj_create" ELSE "lj_do"]
  /\ UNCHANGED <<kURL, respTimeout, httpClient, nClients, gpc, gatherRet,
                 nodeURLs, spawned, wg, phase, tErr, built, addErrors, started,
                 cancelled, nGather>>
  /\ UNCHANGED <<aggVars, histVars, notAggVars, miscVars>>

\* Lines 235-247: default ResponseTimeout, k.httpClient = &http.Client{...}
LoadJSONCreate(t) ==
  /\ tpc[t] = "lj_create"
  /\ respTimeout' = IF respTimeout < 1 THEN 5 ELSE respTimeout
  /\ nClients' = nClients + 1
  /\ httpClient' = nClients + 1
  /\ tpc' = [tpc EXCEPT ![t] = "lj_do"]
  /\ UNCHANGED <<kURL, gpc, gatherRet, nodeURLs, spawned, wg, phase, tErr,
                 built, addErrors, started, cancelled, nGather>>
  /\ UNCHANGED <<aggVars, histVars, notAggVars, miscVars>>

\* Lines 250-273: token, k.httpClient.Do(req), status, decoding; then, in
\* gatherSummary (lines 149-161), the second request or the metrics.
LoadJSONDo(t) ==
  /\ tpc[t] = "lj_do"
  /\ \E ok \in BOOLEAN :
       IF ~ok
         THEN /\ tErr' = [tErr EXCEPT ![t] = "err"]
              /\ tpc' = [tpc EXCEPT ![t] = "add_error"]
              /\ UNCHANGED <<phase, built>>
         ELSE IF phase[t] = "summary"
           THEN /\ phase' = [phase EXCEPT ![t] = "pods"]
                /\ tpc' = [tpc EXCEPT ![t] = "lj_begin"]
                /\ UNCHANGED <<tErr, built>>
           ELSE /\ built' = [built EXCEPT ![t] = TRUE]
                /\ tErr' = [tErr EXCEPT ![t] = "nil"]
                /\ tpc' = [tpc EXCEPT ![t] = "add_error"]
                /\ UNCHANGED phase
  /\ UNCHANGED <<kURL, respTimeout, httpClient, nClients, gpc, gatherRet,
                 nodeURLs, spawned, wg, addErrors, started, cancelled, nGather>>
  /\ UNCHANGED <<aggVars, histVars, notAggVars, miscVars>>

\* Lines 79 and 93: acc.AddError(k.gatherSummary(url, acc))
TaskAddError(t) ==
  /\ tpc[t] = "add_error"
  /\ addErrors' = [addErrors EXCEPT ![t] = Append(@, tErr[t])]
  /\ tpc' = [tpc EXCEPT ![t] = IF t = 0 THEN "done" ELSE "wg_done"]
  /\ UNCHANGED <<kURL, respTimeout, httpClient, nClients, gpc, gatherRet,
                 nodeURLs, spawned, wg, phase, tErr, built, started, cancelled,
                 nGather>>
  /\ UNCHANGED <<aggVars, histVars, notAggVars, miscVars>>

\* Line 92: the deferred wg.Done()
TaskWgDone(t) ==
  /\ tpc[t] = "wg_done"
  /\ wg' = wg - 1
  /\ tpc' = [tpc EXCEPT ![t] = "done"]
  /\ UNCHANGED <<kURL, respTimeout, httpClient, nClients, gpc, gatherRet,
                 nodeURLs, spawned, phase, tErr, built, addErrors, started,
                 cancelled, nGather>>
  /\ UNCHANGED <<aggVars, histVars, notAggVars, miscVars>>

\* The scheduler cancels the collection cycle that is in flight.
CancelCycle ==
  /\ gpc \notin {"idle", "returned"}
  /\ ~cancelled
  /\ cancelled' = TRUE
  /\ UNCHANGED <<kURL, respTimeout, httpClient, nClients, gpc, gatherRet,
                 nodeURLs, spawned, wg, tpc, phase, tErr, built, addErrors,
                 started, nGather>>
  /\ UNCHANGED <<aggVars, histVars, notAggVars, miscVars>>

(***************************************************************************)
(* Node discovery of the Kubernetes input: getNodeURLs, getNodeAddress.    *)
(***************************************************************************)
AddrTypes == {"InternalIP", "ExternalIP", "Hostname"}
AddrValues == {"a", "b"}
NodeAddress == [Type : AddrTypes, Address : AddrValues]
AddressLists == UNION {[1..k -> NodeAddress] : k \in 0..MaxAddrs}
NoNode == [addresses |-> <<>>, address |-> "none", added |-> FALSE]

\* Lines 133-144, from the i-th address on, ext being extAddresses so far.
RECURSIVE ScanAddresses(_, _, _)
ScanAddresses(addresses, i, ext) ==
  IF i > Len(addresses)
    THEN IF Len(ext) > 0 THEN ext[1] ELSE ""
    ELSE IF addresses[i].Type = "InternalIP"
           THEN addresses[i].Address
           ELSE ScanAddresses(addresses, i + 1,
                              Append(ext, addresses[i].Address))

\* Lines 131-145
getNodeAddress(addresses) == ScanAddresses(addresses, 1, <<>>)

\* Line 125: "https://" + address + ":10250"
NodeURL(address) == <<"https://", address, ":10250">>

InitNodes ==
  /\ gnuState = "idle"
  /\ gnuUrls = <<>>
  /\ gnuWarn = 0
  /\ gnuLast = NoNode

\* Lines 101-114: getNodeURLs is called; listing the nodes may fail.
NodeURLsCall ==
  /\ gnuState \in {"idle", "returned", "failed"}
  /\ \E ok \in BOOLEAN : gnuState' = IF ok THEN "listing" ELSE "failed"
  /\ gnuUrls' = <<>>
  /\ gnuWarn' = 0
  /\ gnuLast' = NoNode
  /\ UNCHANGED <<aggVars, histVars, notAggVars, k8sVars, speedVars, trackerVars>>

\* Lines 117-125: one iteration of the loop over nodes.Items.
NodeURLsNode(addresses) ==
  /\ gnuState = "listing"
  /\ Len(gnuUrls) + gnuWarn < MaxNodes
  /\ LET address == getNodeAddress(addresses)
     IN IF address = ""
          THEN /\ gnuWarn' = gnuWarn + 1
               /\ gnuLast' = [addresses |-> addresses, address |-> address,
                              added |-> FALSE]
               /\ UNCHANGED gnuUrls
          ELSE /\ gnuUrls' = Append(gnuUrls, NodeURL(address))
               /\ gnuLast' = [addresses |-> addresses, address |-> address,
                              added |-> TRUE]
               /\ UNCHANGED gnuWarn
  /\ UNCHANGED gnuState
  /\ UNCHANGED <<aggVars, histVars, notAggVars, k8sVars, speedVars, trackerVars>>

\* Line 128: return nodeUrls, nil
NodeURLsReturn ==
  /\ gnuState = "listing"
  /\ gnuState' = "returned"
  /\ UNCHANGED <<gnuUrls, gnuWarn, gnuLast>>
  /\ UNCHANGED <<aggVars, histVars, notAggVars, k8sVars, speedVars, trackerVars>>

(***************************************************************************)
(* Internet speed input: Init and findClosestServer.  A latency is a       *)
(* time.Duration, kept here in ticks of half a millisecond.                *)
(***************************************************************************)
TicksPerMs == 2
MathMaxInt64 == 2147483647   \* stands for math.MaxInt64: above every latency
ServerIDs == {"s1", "s2"}
Latencies == {0, 2, 3}       \* not measured, 1 ms, 1.5 ms
Server == [ID : ServerIDs, Latency : Latencies]
ServerLists == UNION {[1..k -> Server] : k \in 0..MaxServers}
NoServer == [ID |-> "nil", Latency |-> 0]

\* time.Duration.Milliseconds(): whole milliseconds
Milliseconds(latency) == latency \div TicksPerMs

\* Lines 284-296: the loop from position index on; the result is selectIndex
\* (0 where the code has -1, positions counting from 1).
RECURSIVE ScanServers(_, _, _, _, _)
ScanServers(servers, filter, index, minLatency, selectIndex) ==
  IF index > Len(servers)
    THEN selectIndex
    ELSE IF servers[index].ID \in filter
           THEN index
           ELSE IF /\ servers[index].Latency > 0
                   /\ minLatency > Milliseconds(servers[index].Latency)
                  THEN ScanServers(servers, filter, index + 1,
                                   Milliseconds(servers[index].Latency), index)
                  ELSE ScanServers(servers, filter, index + 1,
                                   minLatency, selectIndex)

InitSpeed ==
  /\ isState = "new"
  /\ isFilter = {}
  /\ isServers = <<>>
  /\ isServer = NoServer
  /\ fcsRet = "none"

\* Lines 160-175: Init compiles the include/exclude filter; matched is the
\* set of server IDs the compiled filter matches.
SpeedInit(matched) ==
  /\ isState = "new"
  /\ isState' = "ready"
  /\ isFilter' = matched
  /\ UNCHANGED <<isServers, isServer, fcsRet>>
  /\ UNCHANGED <<aggVars, histVars, notAggVars, k8sVars, nodeVars, trackerVars>>

\* Lines 257-306: findClosestServer; FetchServers returns fetched, with an
\* error unless ok.
FindClosestServer(fetched, ok) ==
  /\ isState = "ready"
  /\ isServers' = fetched
  /\ IF ~ok
       THEN /\ fcsRet' = "fetch_failed"
            /\ UNCHANGED isServer
       ELSE IF Len(fetched) < 1
              THEN /\ fcsRet' = "no_servers"
                   /\ UNCHANGED isServer
              ELSE LET selectIndex ==
                         ScanServers(fetched, isFilter, 1, MathMaxInt64, 0)
                   IN IF selectIndex # 0
                        THEN /\ isServer' = fetched[selectIndex]
                             /\ fcsRet' = "nil"
                        ELSE /\ fcsRet' = "no_server_set"
                             /\ UNCHANGED isServer
  /\ UNCHANGED <<isState, isFilter>>
  /\ UNCHANGED <<aggVars, histVars, notAggVars, k8sVars, nodeVars, trackerVars>>

(***************************************************************************)
(* testTracker of the cloud_pubsub tests: waitForAck, ack, nack.  One      *)
(* goroutine calls waitForAck, the callers call ack and nack.              *)
(***************************************************************************)
Callers == {"c1", "c2"}
WaitNums == {1, 2}

InitTracker ==
  /\ tMutex = "free"
  /\ tCond = FALSE
  /\ numAcks = 0
  /\ numNacks = 0
  /\ wpc = "idle"
  /\ wNum = 0
  /\ cpc = [c \in Callers |-> "idle"]
  /\ ackCalls = 0
  /\ nackCalls = 0

\* Line 85: waitForAck(num) is called.
WaitForAckCall(num) ==
  /\ wpc \in {"idle", "returned"}
  /\ wpc' = "lock"
  /\ wNum' = num
  /\ UNCHANGED <<tMutex, tCond, numAcks, numNacks, cpc, ackCalls, nackCalls>>
  /\ UNCHANGED <<aggVars, histVars, notAggVars, k8sVars, nodeVars, speedVars>>

\* Lines 86-89: t.Lock(), then the Cond is created if it is nil.
WaitForAckLock ==
  /\ wpc = "lock"
  /\ tMutex = "free"
  /\ tMutex' = "waiter"
  /\ tCond' = TRUE
  /\ wpc' = "test"
  /\ UNCHANGED <<numAcks, numNacks, wNum, cpc, ackCalls, nackCalls>>
  /\ UNCHANGED <<aggVars, histVars, notAggVars, k8sVars, nodeVars, speedVars>>

\* Lines 90-93: the loop test.  t.Wait() releases the mutex and parks the
\* goroutine until a Signal or Broadcast, which no method of the tracker
\* issues; otherwise t.Unlock() and return.
WaitForAckTest ==
  /\ wpc = "test"
  /\ tMutex' = "free"
  /\ wpc' = IF numAcks < wNum THEN "parked" ELSE "returned"
  /\ UNCHANGED <<tCond, numAcks, numNacks, wNum, cpc, ackCalls, nackCalls>>
  /\ UNCHANGED <<aggVars, histVars, notAggVars, k8sVars, nodeVars, speedVars>>

\* Calls of ack() and nack() begun so far.
TrackerCallsBegun ==
  ackCalls + nackCalls + Cardinality({c \in Callers : cpc[c] # "idle"})

\* Lines 96-100: ack() takes the lock and increments numAcks.
AckLock(c) ==
  /\ cpc[c] = "idle"
  /\ TrackerCallsBegun < MaxTrackerCalls
  /\ tMutex = "free"
  /\ tMutex' = c
  /\ numAcks' = numAcks + 1
  /\ cpc' = [cpc EXCEPT ![c] = "ack"]
  /\ UNCHANGED <<tCond, numNacks, wpc, wNum, ackCalls, nackCalls>>
  /\ UNCHANGED <<aggVars, histVars, notAggVars, k8sVars, nodeVars, speedVars>>

\* Lines 98, 101: the deferred t.Unlock() and the return of ack().
AckReturn(c) ==
  /\ cpc[c] = "ack"
  /\ tMutex' = "free"
  /\ cpc' = [cpc EXCEPT ![c] = "idle"]
  /\ ackCalls' = ackCalls + 1
  /\ UNCHANGED <<tCond, numAcks, numNacks, wpc, wNum, nackCalls>>
  /\ UNCHANGED <<aggVars, histVars, notAggVars, k8sVars, nodeVars, speedVars>>

\* Lines 103-107: nack() takes the lock and increments numNacks.
NackLock(c) ==
  /\ cpc[c] = "idle"
  /\ TrackerCallsBegun < MaxTrackerCalls
  /\ tMutex = "free"
  /\ tMutex' = c
  /\ numNacks' = numNacks + 1
  /\ cpc' = [cpc EXCEPT ![c] = "nack"]
  /\ UNCHANGED <<tCond, numAcks, wpc, wNum, ackCalls, nackCalls>>
  /\ UNCHANGED <<aggVars, histVars, notAggVars, k8sVars, nodeVars, speedVars>>

\* Lines 105, 108: the deferred t.Unlock() and the return of nack().
NackReturn(c) ==
  /\ cpc[c] = "nack"
  /\ tMutex' = "free"
  /\ cpc' = [cpc EXCEPT ![c] = "idle"]
  /\ nackCalls' = nackCalls + 1
  /\ UNCHANGED <<tCond, numAcks, numNacks, wpc, wNum, ackCalls>>
  /\ UNCHANGED <<aggVars, histVars, notAggVars, k8sVars, nodeVars, speedVars>>

InitMisc == InitNodes /\ InitSpeed /\ InitTracker

(***************************************************************************)
(* Specifications.                                                         *)
(***************************************************************************)
\* One producer with the full range of metrics, and the periodic Push.
Init == InitAgg /\ InitTracking /\ DefaultK8s /\ InitMisc

Next ==
  \/ \E m \in Metrics : AddStart("p1", m)
  \/ AddFilter("p1")
  \/ AddLock("p1")
  \/ AddWindow("p1")
  \/ AddUnlock("p1")
  \/ PushLock
  \/ \E now \in ClockValues : PushCompute(now)
  \/ UWSetStart(Pusher)
  \/ UWSetEnd(Pusher)
  \/ PushAgg
  \/ PushReset
  \/ PushUnlock

Spec == Init /\ [][Next]_vars

\* Two producers, the periodic Push, and the agent's direct calls.
NextAgent ==
  \/ \E p \in Producers : \E m \in SmallMetrics : AddStart(p, m)
  \/ \E p \in Producers : AddFilter(p)
  \/ \E p \in Producers : AddLock(p)
  \/ \E p \in Producers : AddWindow(p)
  \/ \E p \in Producers : AddUnlock(p)
  \/ PushLock
  \/ \E now \in SmallClock : PushCompute(now)
  \/ \E q \in {Pusher, Agent} : UWSetStart(q)
  \/ \E q \in {Pusher, Agent} : UWSetEnd(q)
  \/ PushAgg
  \/ PushReset
  \/ PushUnlock
  \/ AgentCallEndPeriod
  \/ AgentEndPeriod
  \/ AgentCallUpdateWindow

InitAgent ==
  /\ InitAgg
  /\ InitTracking
  /\ DefaultK8s
  /\ InitMisc
  /\ cfg.Period = 3
  /\ cfg.DropOriginal

SpecAgent == InitAgent /\ [][NextAgent]_vars

\* The tracking registry on its own: any order of Track, RegisterObligations
\* and ReportOutcome, and the calls TestTracking makes.
InitTrack ==
  /\ InitAgg
  /\ InitTracking
  /\ DefaultK8s
  /\ InitMisc
  /\ cfg = [Period |-> 3, Grace |-> 1, Delay |-> 2, DropOriginal |-> FALSE]

NextTrack ==
  \/ \E id \in TIDs : Track(id)
  \/ \E id \in TIDs : \E n \in 0..MaxSinks : RegisterObligations(id, n)
  \/ \E id \in TIDs : \E ok \in BOOLEAN : ReportOutcome(id, ok)
  \/ \E id \in TIDs : WithTracking(id)
  \/ \E id \in TIDs : Accept(id)

SpecTrack == InitTrack /\ [][NextTrack]_vars

\* Two producers calling Add concurrently with metrics of every outcome,
\* and the periodic Push.
NextAdds ==
  \/ \E p \in Producers : \E m \in OutcomeMetrics : AddStart(p, m)
  \/ \E p \in Producers : AddFilter(p)
  \/ \E p \in Producers : AddLock(p)
  \/ \E p \in Producers : AddWindow(p)
  \/ \E p \in Producers : AddUnlock(p)
  \/ PushLock
  \/ \E now \in {95} : PushCompute(now)
  \/ UWSetStart(Pusher)
  \/ UWSetEnd(Pusher)
  \/ PushAgg
  \/ PushReset
  \/ PushUnlock

SpecAdds == InitAgent /\ [][NextAdds]_vars

\* The Kubernetes input on its own: repeated Gather calls, their fan-out
\* tasks, and the scheduler's cancellation.
InitGather ==
  /\ InitAgg
  /\ InitTracking
  /\ InitK8s
  /\ InitMisc
  /\ cfg = [Period |-> 3, Grace |-> 1, Delay |-> 2, DropOriginal |-> FALSE]

NextGather ==
  \/ GatherCall
  \/ GetNodeURLs
  \/ GatherSpawn
  \/ GatherWait
  \/ GatherSingleReturn
  \/ \E t \in Targets : LoadJSONBegin(t)
  \/ \E t \in Targets : LoadJSONCheck(t)
  \/ \E t \in Targets : LoadJSONCreate(t)
  \/ \E t \in Targets : LoadJSONDo(t)
  \/ \E t \in Targets : TaskAddError(t)
  \/ \E t \in Targets : TaskWgDone(t)
  \/ CancelCycle

SpecGather == InitGather /\ [][NextGather]_vars

\* Node discovery on its own: getNodeURLs over nodes with any addresses.
NextNodes ==
  \/ NodeURLsCall
  \/ \E addresses \in AddressLists : NodeURLsNode(addresses)
  \/ NodeURLsReturn

SpecNodes == InitTrack /\ [][NextNodes]_vars

\* Server selection on its own: Init, then findClosestServer calls.
NextSpeed ==
  \/ \E matched \in SUBSET ServerIDs : SpeedInit(matched)
  \/ \E fetched \in ServerLists, ok \in BOOLEAN :
       FindClosestServer(fetched, ok)

SpecSpeed == InitTrack /\ [][NextSpeed]_vars

\* The test tracker on its own: one waiter, concurrent ack and nack calls.
NextTracker ==
  \/ \E num \in WaitNums : WaitForAckCall(num)
  \/ WaitForAckLock
  \/ WaitForAckTest
  \/ \E c \in Callers : AckLock(c)
  \/ \E c \in Callers : AckReturn(c)
  \/ \E c \in Callers : NackLock(c)
  \/ \E c \in Callers : NackReturn(c)

SpecTracker == InitTrack /\ [][NextTracker]_vars

(***************************************************************************)
(* Properties.                                                             *)
(***************************************************************************)
\* the admission range as the window contract states it
InRange(t) == periodStart - cfg.Grace <= t /\ t <= periodEnd + cfg.Delay

\* C1: a selected metric that still has fields is passed to the algorithm
\* exactly when periodStart - Grace <= time <= periodEnd + Delay, both
\* boundaries included; otherwise the algorithm state is left alone.
C1_AdmitIffInRange ==
  [][\A p \in Producers :
       (pc[p] = "window" /\ pc'[p] = "unlock") =>
          IF InRange(copyM[p].time)
            THEN /\ aggState'.count = aggState.count + 1
                 /\ outcome'[p] = "added"
            ELSE /\ aggState' = aggState
                 /\ outcome'[p] = "dropped"]_vars

C1_Witness ==
  \E p \in Producers :
    /\ pc[p] = "unlock"
    /\ origM[p].sel = "ok"
    /\ outcome[p] = "added"
    /\ aggState.count > 0
    /\ copyM[p].time = periodEnd + cfg.Delay
    /\ cfg.Delay > 0

\* the lower boundary is reached as well
C1_LowerBoundaryAdmitted ==
  \E p \in Producers :
    /\ pc[p] = "unlock"
    /\ origM[p].sel = "ok"
    /\ outcome[p] = "added"
    /\ copyM[p].time = periodStart - cfg.Grace
    /\ cfg.Grace > 0

\* a Push is in the middle of its window update: periodStart is written,
\* periodEnd is not yet
InWindowUpdate == pc[Pusher] = "uw_end"

\* some Push has completed a window update
WindowUpdated ==
  \/ nPushes > 1
  \/ nPushes = 1 /\ pc[Pusher] \notin {"compute", "uw_start", "uw_end"}

\* C2 as stated: periodEnd = periodStart + period in every state reachable
\* from creation, the initial state included, except inside a window update.
C2_Original == ~InWindowUpdate => periodEnd = periodStart + cfg.Period

\* C2 amended: after creation both bounds are the zero time until the first
\* Push updates the window; from then on periodEnd = periodStart + period
\* except inside a window update.
C2_Amended ==
  /\ (nPushes = 0 => periodStart = 0 /\ periodEnd = 0)
  /\ (WindowUpdated /\ ~InWindowUpdate
        => periodEnd = periodStart + cfg.Period)

C2_Witness ==
  /\ nPushes = 2
  /\ pc[Pusher] = "idle"
  /\ nAdds > 0
  /\ periodStart > 0
  /\ periodEnd = periodStart + cfg.Period

\* the Push has written the new window
PushUpdated == pc[Pusher] \in {"agg_push", "agg_reset", "unlock"}

\* the clock sampled by the running Push lies in the intended next window
ClockInNext == oldEnd <= nowWall /\ nowWall <= oldEnd + cfg.Period

\* C3: when the sampled clock lies within [periodEnd, periodEnd + period],
\* Push sets the window to [old periodEnd, old periodEnd + period], so
\* consecutive windows are contiguous.
C3_ContiguousAdvance ==
  (PushUpdated /\ ClockInNext)
     => (periodStart = oldEnd /\ periodEnd = oldEnd + cfg.Period)

C3_Witness ==
  /\ pc[Pusher] = "unlock"
  /\ nPushes = 2
  /\ ClockInNext
  /\ oldEnd > 0
  /\ nowWall = oldEnd
  /\ periodStart = oldEnd
  /\ periodEnd = oldEnd + cfg.Period

\* number of entries e in the sequence s
Count(s, e) == Cardinality({i \in 1..Len(s) : s[i] = e})

\* C4: when the sampled clock lies outside [periodEnd, periodEnd + period],
\* that one Push sets the window to [floor(now, period), floor(now, period)
\* + period], with one window update and one algorithm Push (periodEnd 100,
\* now 500, period 10 gives [500, 510]).
C4_ReanchorOnJump ==
  (PushUpdated /\ ~ClockInNext)
     => /\ periodStart = nowWall - (nowWall % cfg.Period)
        /\ periodEnd = periodStart + cfg.Period
        /\ periodStart <= nowWall /\ nowWall < periodEnd
        /\ Count(pushTrace, "UpdateWindow") = 1
        /\ Count(pushTrace, "Push") <= 1

C4_Witness ==
  /\ pc[Pusher] = "unlock"
  /\ cfg.Period = 10
  /\ oldEnd = 100
  /\ nowWall = 500
  /\ periodStart = 500
  /\ periodEnd = 510
  /\ Count(pushTrace, "Push") = 1

\* C5: every Push makes, in this order and once each, the window update,
\* the algorithm's Push and the algorithm's Reset, also when the algorithm's
\* Push failed; nothing accumulated before the Push is left after it.
PushOrder == <<"UpdateWindow", "Push", "Reset">>

C5_PushOrder ==
  /\ \E k \in 0..3 : pushTrace = SubSeq(PushOrder, 1, k)
  /\ (pc[Pusher] = "unlock" => pushTrace = PushOrder /\ aggState = EmptyAgg)
  /\ (pc[Pusher] = "idle" => pushTrace = <<>>)

C5_Witness ==
  /\ pc[Pusher] = "unlock"
  /\ pushTrace = PushOrder
  /\ acc.failed
  /\ acc.count > 0
  /\ aggState = EmptyAgg

\* positions at which a goroutine reads or writes periodStart / periodEnd
\* or calls into the aggregation algorithm
AccessLabels == {"window", "compute", "uw_start", "uw_end", "agg_push",
                 "agg_reset", "end_period"}
\* positions inside a critical section of Add or Push
SectionLabels == {"window", "unlock", "compute", "uw_start", "uw_end",
                  "agg_push", "agg_reset"}

\* C6 as stated: at most one critical section runs at a time, and every
\* access to the window and every call into the algorithm is made by the
\* goroutine holding the lock, direct UpdateWindow / EndPeriod calls included.
C6_LockHeldOnEveryAccess ==
  /\ Cardinality({q \in Producers \cup {Pusher} :
                    pc[q] \in SectionLabels}) <= 1
  /\ \A q \in Procs : pc[q] \in AccessLabels => mu = q

\* C7: no Add takes effect between a Push's window update and its Reset:
\* the window test and Aggregator.Add of an Add never run while the Push is
\* between its first window write and its Reset, and what the Push emitted
\* is exactly the state its Reset clears.
C7_NoAddInsidePush ==
  [][/\ \A p \in Producers :
          (pc[p] = "window" /\ pc'[p] = "unlock")
             => pc[Pusher] \notin {"uw_start", "uw_end", "agg_push",
                                   "agg_reset"}
     /\ (pc[Pusher] = "agg_reset" /\ pc'[Pusher] = "unlock")
          => (acc.count = aggState.count /\ acc.sum = aggState.sum)]_vars

C7_Witness ==
  \E p \in Producers :
    /\ pc[p] = "lock"
    /\ pc[Pusher] = "agg_reset"
    /\ acc.count > 0
    /\ ~OutsideWindow(copyM[p].time, periodStart, periodEnd, cfg)

\* C8: for a tracked point with n >= 1 obligations the notification fires
\* at most once, has fired exactly when n outcomes were reported, and is
\* success exactly when all n outcomes were success.
C8_NotifyOnceAfterAll ==
  \A id \in TIDs :
    (trk[id].state = "registered" /\ trk[id].n >= 1) =>
      LET r == trk[id]
      IN /\ r.notified <= 1
         /\ Len(r.history) <= r.n
         /\ (r.notified = 1 <=> Len(r.history) = r.n)
         /\ (r.notified = 0 => r.status = "none")
         /\ (r.notified = 1 =>
               (r.status = "success"
                  <=> \A i \in 1..Len(r.history) : r.history[i]))
         /\ (r.notified = 1 => r.status \in {"success", "failure"})

C8_Witness ==
  /\ trk[1].n = 3
  /\ trk[1].history = <<FALSE, TRUE, TRUE>>
  /\ trk[1].notified = 1
  /\ trk[1].status = "failure"
  /\ trk[2].n = 1
  /\ trk[2].history = <<TRUE>>
  /\ trk[2].notified = 1
  /\ trk[2].status = "success"

\* C9 as stated: when Filter.Select returned an error the metric is neither
\* passed to the algorithm nor counted as dropped out of the window.
C9_SelectErrorNotAggregated ==
  \A p \in Producers :
    (pc[p] \in {"lock", "window", "unlock", "done"} /\ origM[p].sel = "err")
       => (pc[p] = "done" /\ outcome[p] \notin {"added", "dropped"})

\* C10: Add leaves the caller's metric and its outstanding delivery
\* obligations as they were when Add was called, in every step of Add and
\* of any Push that follows.
C10_OriginalUntouched ==
  [][\A p \in Producers :
       ~(pc[p] \in {"idle", "done"} /\ pc'[p] = "select")
          => (origM'[p] = origM[p] /\ pending'[p] = pending[p])]_vars

C10_Witness ==
  \E p \in Producers :
    /\ pc[p] = "done"
    /\ outcome[p] = "added"
    /\ origM[p].fields = {"a", "b"}
    /\ origM[p].tracked
    /\ copyM[p].fields = {"a"}
    /\ pending[p] = 1
      /\ acc.count > 0
    /\ aggState = EmptyAgg

\* C11: in the three outcomes filtered, dropped and added, Add returns the
\* configured DropOriginal; two returned calls with the same metric and the
\* same outcome under one configuration return the same value.
C11_ReturnsDropOriginal ==
  /\ \A p \in Producers :
        (pc[p] \in {"unlock", "done"}
           /\ outcome[p] \in {"filtered", "dropped", "added"})
          => ret[p] = cfg.DropOriginal
  /\ \A p, q \in Producers :
        (pc[p] = "done" /\ pc[q] = "done" /\ origM[p] = origM[q]
           /\ outcome[p] = outcome[q])
          => ret[p] = ret[q]

C11_Witness ==
  \E p \in Producers :
    /\ pc[p] = "done"
    /\ cfg.DropOriginal
    /\ outcome[p] = "dropped"
    /\ MetricsDropped > 0
    /\ ret[p] = TRUE

\* C12: a point whose timestamp is after periodEnd + Delay of the current
\* window is rejected by Add (dropped counter incremented, algorithm not
\* called); the next Push, its clock inside the next window, makes
\* [periodEnd, periodEnd + Period] the window; an Add of a point with the same
\* timestamp, inside that next window, is then admitted.
NextWindowOf(l) ==
  /\ l # NoLate
  /\ periodStart = l.periodEnd
  /\ periodEnd = l.periodEnd + cfg.Period

C12_LateThenAdmitted ==
  [][/\ \A p \in Producers :
          (pc[p] = "window" /\ pc'[p] = "unlock") =>
            /\ copyM[p].time > periodEnd + cfg.Delay =>
                 /\ outcome'[p] = "dropped"
                 /\ MetricsDropped' = MetricsDropped + 1
                 /\ aggState' = aggState
            /\ (/\ NextWindowOf(lastLate)
                /\ copyM[p].time = lastLate.time
                /\ lastLate.time <= periodEnd) =>
                 /\ outcome'[p] = "added"
                 /\ MetricsDropped' = MetricsDropped
                 /\ aggState' = AggAdd(aggState, copyM[p])
     /\ (/\ pc[Pusher] = "uw_end" /\ pc'[Pusher] = "agg_push"
         /\ lastLate # NoLate /\ oldEnd = lastLate.periodEnd
         /\ ClockInNext) => NextWindowOf(lastLate)'
    ]_vars

C12_Witness ==
  \E p \in Producers :
    /\ pc[p] = "done"
    /\ outcome[p] = "added"
    /\ NextWindowOf(lastLate)
    /\ copyM[p].time = lastLate.time
    /\ MetricsDropped = 1
    /\ nPushes = 1
    /\ aggState.count = 1

\* C13: what a Push emits is exactly the points admitted since the previous
\* Push: outside the moment between Aggregator.Push and Aggregator.Reset the
\* algorithm holds those points and nothing older, as a fresh aggregator given
\* only them would, and each emission equals them, so every admitted point is
\* in exactly one output.
C13_PushEmitsOnlySincePrevious ==
  /\ [](pc[Pusher] # "agg_reset" =>
          /\ aggState.sum = sincePush.sum
          /\ aggState.count = sincePush.count)
  /\ [][(pc[Pusher] = "agg_push" /\ pc'[Pusher] # "agg_push") =>
          /\ acc'.sum = sincePush.sum
          /\ acc'.count = sincePush.count
          /\ sincePush' = EmptyAgg]_vars
  /\ [][(pc[Pusher] = "agg_reset" /\ pc'[Pusher] = "unlock") =>
          aggState' = EmptyAgg]_vars

C13_Witness ==
  /\ pc[Pusher] = "unlock"
  /\ acc.sum = 12
  /\ acc.count = 2
  /\ ~acc.failed
  /\ aggState = EmptyAgg
  /\ sincePush = EmptyAgg

\* the whole second an instant lies in
Second(t) == t \div TicksPerSecond

\* the running Push sampled the clock in the whole second in which the
\* intended next window ends
JitterCase == PushUpdated /\ Second(nowWall) = Second(oldEnd + cfg.Period)

\* C14 as stated: a Push whose clock reading lies in the same whole second
\* as periodEnd + period, not before periodEnd, advances to
\* [periodEnd, periodEnd + period] and does not re-anchor.
C14_Original ==
  (JitterCase /\ nowWall >= oldEnd)
     => (periodStart = oldEnd /\ periodEnd = oldEnd + cfg.Period)

\* C14 amended: the clock test is exact, not by whole seconds. In the second
\* in which the intended next window ends, a Push not before periodEnd
\* advances to [periodEnd, periodEnd + period] exactly when its clock reading
\* is not after periodEnd + period; one any fraction of a second later
\* re-anchors to [floor(now, period), floor(now, period) + period].
C14_Amended ==
  (JitterCase /\ nowWall >= oldEnd)
     => /\ (periodStart = oldEnd /\ periodEnd = oldEnd + cfg.Period)
             <=> nowWall <= oldEnd + cfg.Period
        /\ nowWall > oldEnd + cfg.Period
             => /\ periodStart = Truncate(nowWall, cfg.Period)
                /\ periodEnd = periodStart + cfg.Period

C14_Witness ==
  /\ JitterCase
  /\ nowWall > oldEnd + cfg.Period
  /\ nowWall - (oldEnd + cfg.Period) < TicksPerSecond
  /\ periodStart = Truncate(nowWall, cfg.Period)
  /\ periodStart # oldEnd
  /\ periodEnd = periodStart + cfg.Period

\* the point's obligations are all accounted for
Resolved(r) == r.state = "registered" /\ r.remaining = 0

\* C15: a tracked point forwarded to zero sinks is resolved as soon as that
\* is registered: the notification has fired exactly once, with success,
\* without any reported outcome, and stays so.
C15_ZeroSinksResolveAtOnce ==
  \A id \in TIDs :
    (trk[id].state = "registered" /\ trk[id].n = 0) =>
      /\ trk[id].notified = 1
      /\ trk[id].status = "success"
      /\ trk[id].history = <<>>

C15_Witness ==
  /\ trk[1].state = "registered"
  /\ trk[1].n = 0
  /\ trk[1].notified = 1
  /\ trk[1].status = "success"
  /\ Len(errChan) > 0
  /\ errChan[1] = [id |-> 1, cause |-> "too many outcomes"]

\* C16: a ReportOutcome for an id without registered obligations, or beyond
\* the registered obligations, puts one error on the error channel and does
\* nothing else: no record changes, so no notification fires and a resolved
\* point keeps its status; the registry keeps serving the other ids.
C16_BadReportOnlyErrors ==
  [][/\ \A id \in TIDs : Resolved(trk[id]) => trk'[id] = trk[id]
     /\ errChan' # errChan =>
          /\ trk' = trk
          /\ \E id \in TIDs :
               /\ ~(trk[id].state = "registered" /\ trk[id].remaining > 0)
               /\ errChan' = Append(errChan, ErrorFor(id, trk[id]))
     /\ (trk' = trk /\ aggVars' = aggVars /\ histVars' = histVars) =>
          Len(errChan') = Len(errChan) + 1
     /\ \A id \in TIDs :
          trk'[id].notified # trk[id].notified =>
            /\ trk[id].state \in {"tracked", "registered"}
            /\ trk[id].notified = 0
            /\ trk'[id].remaining = 0
    ]_vars

C16_Witness ==
  /\ errChan = <<[id |-> 2, cause |-> "unknown id"],
                 [id |-> 1, cause |-> "too many outcomes"]>>
  /\ trk[1].n = 2
  /\ trk[1].notified = 1
  /\ trk[1].status = "failure"
  /\ Len(trk[1].history) = 2
  /\ trk[2].state = "registered"
  /\ trk[2].notified = 1
  /\ trk[2].status = "success"

\* the targets of the running fan-out
NodeTargets == {nodeURLs[i] : i \in 1..Len(nodeURLs)}

\* C17: without a URL, Gather starts one task per discovered node URL and
\* returns only when every one has finished; whatever the siblings returned,
\* each node's task ran once and made one AddError call with its own result.
C17_FanOutWaitsForAll ==
  /\ \A t \in Targets : started[t] <= 1
  /\ (~kURL /\ gpc \in {"wait", "returned"} /\ gatherRet # "err") =>
       \A t \in Targets :
         started[t] = IF t \in NodeTargets THEN 1 ELSE 0
  /\ (~kURL /\ gpc = "returned" /\ gatherRet # "err") =>
       /\ wg = 0
       /\ \A t \in NodeTargets :
            /\ tpc[t] = "done"
            /\ tErr[t] \in {"nil", "err"}
            /\ addErrors[t] = <<tErr[t]>>
       /\ \A t \in Targets \ NodeTargets : addErrors[t] = <<>>

C17_Witness ==
  /\ ~kURL
  /\ gpc = "returned"
  /\ nodeURLs = <<1, 2>>
  /\ addErrors[1] = <<"err">>
  /\ ~built[1]
  /\ addErrors[2] = <<"nil">>
  /\ built[2]
  /\ gatherRet = "nil"

\* C18: Gather returns an error only when node discovery failed, and then no
\* task was started and nothing was reported; a target's failure is handed
\* to AddError and Gather returns nil, with a URL and without.
C18_TargetErrorsNotReturned ==
  gpc = "returned" =>
    /\ gatherRet \in {"nil", "err"}
    /\ kURL => gatherRet = "nil"
    /\ gatherRet = "err" =>
         /\ nodeURLs = <<>>
         /\ \A t \in Targets :
              started[t] = 0 /\ tpc[t] = "none" /\ addErrors[t] = <<>>
    /\ \A t \in Targets :
         tErr[t] = "err" => (gatherRet = "nil" /\ addErrors[t] = <<"err">>)

C18_Witness ==
  /\ kURL
  /\ gpc = "returned"
  /\ tErr[0] = "err"
  /\ addErrors[0] = <<"err">>
  /\ gatherRet = "nil"

\* C19 as stated: once the running collection cycle is cancelled, a fan-out
\* task that was still running does not complete with a result: it returns
\* without adding its metrics and not with nil.
C19_CancelledTasksStop ==
  [][\A t \in NodeTargets :
       (cancelled /\ tErr[t] = "none" /\ tErr'[t] # "none") =>
         (tErr'[t] # "nil" /\ ~built'[t])]_vars

\* Add calls that were started and have not had their effect yet
InFlight == {p \in Producers : pc[p] \in {"select", "lock", "window"}}

\* what one step adds to the four tallies
Effects ==
  <<nNotSelected' - nNotSelected, MetricsFiltered' - MetricsFiltered,
    MetricsDropped' - MetricsDropped, nAggAdd' - nAggAdd>>

EffectOf(oc) ==
  CASE oc = "notselected" -> <<1, 0, 0, 0>>
    [] oc = "filtered" -> <<0, 1, 0, 0>>
    [] oc = "dropped" -> <<0, 0, 1, 0>>
    [] oc = "added" -> <<0, 0, 0, 1>>
    [] OTHER -> <<0, 0, 0, 0>>

\* C20: every Add call has exactly one effect - it returns unselected, or
\* adds one to the filtered counter, or one to the dropped counter, or calls
\* the algorithm's Add once - and with calls running concurrently the four
\* tallies always add up to the number of calls that got that far, so to the
\* number of Add calls once all have returned.
C20_OneEffectPerAdd ==
  /\ [](nNotSelected + MetricsFiltered + MetricsDropped + nAggAdd
          = nAdds - Cardinality(InFlight))
  /\ [](\A p \in Producers : pc[p] \in {"unlock", "done"}
                                 => outcome[p] # "none")
  /\ [][\A p \in Producers :
          /\ (outcome[p] = "none" /\ outcome'[p] # "none") =>
               /\ Effects = EffectOf(outcome'[p])
               /\ aggState'.count = aggState.count + Effects[4]
               /\ outcome'[p] = "notselected" => aggState' = aggState
          /\ (outcome[p] # "none" /\ outcome'[p] # outcome[p]) =>
               (outcome'[p] = "none" /\ pc'[p] = "select")]_vars
  /\ [][(\A p \in Producers : outcome'[p] = outcome[p]
                                 \/ outcome'[p] = "none") =>
          Effects = <<0, 0, 0, 0>>]_vars

C20_Witness ==
  /\ nAdds = 2
  /\ pc["p1"] = "done"
  /\ pc["p2"] = "done"
  /\ outcome["p1"] = "filtered"
  /\ outcome["p2"] = "dropped"
  /\ MetricsFiltered = 1
  /\ MetricsDropped = 1
  /\ nNotSelected = 0
  /\ nAggAdd = 0

\* the aggregation window
Window == <<periodStart, periodEnd>>

\* the producers' positions
AddPositions == [p \in Producers |-> pc[p]]

\* C21: no step of an Add changes periodStart or periodEnd, whatever the
\* timestamp and the outcome; the window changes only in steps of Push's
\* UpdateWindow call, and every Push makes exactly one such call, which
\* leaves the window it computed.
C21_WindowChangesOnlyInPush ==
  /\ [][AddPositions' # AddPositions => Window' = Window]_vars
  /\ [][Window' # Window =>
          /\ pc[Pusher] \in {"uw_start", "uw_end"}
          /\ pc'[Pusher] # pc[Pusher]
          /\ AddPositions' = AddPositions]_vars
  /\ [](pc[Pusher] \in {"compute", "uw_start", "uw_end"} =>
          Count(pushTrace, "UpdateWindow") = 0)
  /\ [](PushUpdated =>
          /\ Count(pushTrace, "UpdateWindow") = 1
          /\ Window = <<since[Pusher], until[Pusher]>>)

C21_Witness ==
  /\ pc[Pusher] = "unlock"
  /\ nPushes = 2
  /\ Count(pushTrace, "UpdateWindow") = 1
  /\ Window = <<90, 100>>
  /\ pc["p1"] = "done"
  /\ outcome["p1"] = "dropped"
  /\ lastLate # NoLate
  /\ nAdds = 2

\* C22: once a Push has written the window, the clock reading it sampled
\* lies inside it, whether the reading was inside the intended next window,
\* after it, or before it.
C22_NowInsideNewWindow ==
  PushUpdated => (periodStart <= nowWall /\ nowWall <= periodEnd)

C22_Witness ==
  /\ pc[Pusher] = "unlock"
  /\ nPushes = 2
  /\ nowWall < oldEnd
  /\ periodEnd < oldEnd
  /\ periodStart <= nowWall
  /\ nowWall <= periodEnd

\* C23: when Select says, without error, that the metric is not selected,
\* Add returns false also with DropOriginal set, and that step leaves both
\* counters, the window and the algorithm state as they were.
C23_NotSelectedReturnsFalse ==
  /\ [](\A p \in Producers :
          (pc[p] \in {"lock", "window", "unlock"} => origM[p].sel # "no")
          /\ (pc[p] = "done" /\ origM[p].sel = "no" =>
                 ret[p] = FALSE /\ outcome[p] = "notselected"))
  /\ [][\A p \in Producers :
          (pc[p] = "select" /\ origM[p].sel = "no" /\ pc'[p] # "select") =>
            /\ pc'[p] = "done"
            /\ ret'[p] = FALSE
            /\ MetricsFiltered' = MetricsFiltered
            /\ MetricsDropped' = MetricsDropped
            /\ Window' = Window
            /\ aggState' = aggState
            /\ errLog' = errLog]_vars

C23_Witness ==
  \E p \in Producers :
    /\ cfg.DropOriginal
    /\ pc[p] = "done"
    /\ origM[p].sel = "no"
    /\ ret[p] = FALSE
    /\ MetricsFiltered = 0
    /\ MetricsDropped = 0
    /\ aggState = EmptyAgg

\* the loadJSON calls that found k.httpClient unset and are about to set it
Creating == {t \in Targets : tpc[t] = "lj_create"}

\* C24 as stated: the shared HTTP client is created at most once, and no two
\* concurrent loadJSON calls both find it unset and both construct it.
C24_ClientCreatedOnce ==
  /\ Cardinality(Creating) <= 1
  /\ nClients <= 1


\* positions of the entries of the given type in an address list
OfType(addresses, type) ==
  {i \in 1..Len(addresses) : addresses[i].Type = type}

\* the least element of a non-empty set of numbers
Least(S) == CHOOSE i \in S : \A j \in S : i <= j

\* C25 as stated: for the node handled last, getNodeAddress returned the
\* first InternalIP address if there is one, else the ExternalIP address if
\* there is one, else the empty string, and then no URL was appended.
C25_NodeAddressChoice ==
  gnuLast # NoNode =>
    LET a == gnuLast.addresses
        internal == OfType(a, "InternalIP")
        external == OfType(a, "ExternalIP")
    IN /\ internal # {} => gnuLast.address = a[Least(internal)].Address
       /\ (internal = {} /\ external # {}) =>
            gnuLast.address = a[Least(external)].Address
       /\ (internal = {} /\ external = {}) =>
            (gnuLast.address = "" /\ ~gnuLast.added)
       /\ gnuLast.added <=> gnuLast.address # ""


\* positions of the fetched servers the filter matches
Matches == {i \in 1..Len(isServers) : isServers[i].ID \in isFilter}

\* positions of the fetched servers whose latency was measured
Measured == {i \in 1..Len(isServers) : isServers[i].Latency > 0}

\* C26 as stated: after findClosestServer, the selected server is the first
\* one the filter matches; when the filter matches none, it is a server of
\* the list with the lowest latency (among those whose latency was
\* measured); and when the call returned an error, no server is selected.
C26_ClosestServerChoice ==
  fcsRet # "none" =>
    /\ (fcsRet = "nil" /\ Matches # {}) =>
         isServer = isServers[Least(Matches)]
    /\ (fcsRet = "nil" /\ Matches = {}) =>
         /\ \E i \in Measured : isServer = isServers[i]
         /\ \A i \in Measured : isServer.Latency <= isServers[i].Latency
    /\ fcsRet # "nil" => isServer = NoServer
    /\ Len(isServers) = 0 => fcsRet # "nil"


\* the waiter is parked in t.Wait(): only a Signal or Broadcast resumes it
Parked == wpc = "parked"

\* whenever no ack() or nack() holds the lock, the counters equal the
\* numbers of completed calls
TrackerCountsExact ==
  (\A c \in Callers : cpc[c] = "idle") =>
    (numAcks = ackCalls /\ numNacks = nackCalls)

\* C27 as stated, in the form a finite run refutes: once ack() has
\* completed num times, the waitForAck(num) call is not left parked in
\* Wait (where nothing would resume it), whether the acks came before or
\* after it began to wait; and the counters equal the completed calls.
C27_WaiterNotStranded ==
  /\ ~(Parked /\ ackCalls >= wNum)
  /\ TrackerCountsExact

====
